---- MODULE Spec2Model ----
(***************************************************************************)
(* Model of homework.py: the start-up check (check_tokens), the fetcher    *)
(* (get_api_answer), the validator (check_response), the status formatter  *)
(* (parse_status), the notifier (send_message) and the poll loop of main.  *)
(*                                                                         *)
(* The message texts of the program are Russian; TLA+ strings are ASCII,   *)
(* so every text constant below is an English rendering of the constant of *)
(* the same name, one distinct string per distinct source string.          *)
(***************************************************************************)
EXTENDS Integers, Sequences, FiniteSets, TLC

VARIABLES
    env,                 \* PRACTICUM_TOKEN, TELEGRAM_TOKEN, TELEGRAM_CHAT_ID (module globals)
    pc,                  \* position of the process in main
    clock,               \* time.time()
    timestamp,           \* main: timestamp
    latest_hw_status,    \* main: latest_hw_status
    api_answer,          \* main: api_answer
    previous_hw_status,  \* main: previous_hw_status
    error,               \* the exception in flight, NoError when there is none
    log,                 \* the records handed to logger, as a set of <<level, text>>
    exit_status,         \* the argument of sys.exit, None while the process runs
    cycle,               \* history: number of loop iterations begun
    requests,            \* history: the from_date of every HTTP GET issued
    sent,                \* history: every bot.send_message call, in order
    slept,               \* history: the time.sleep durations of the current iteration
    hist                 \* history: per iteration, what it started from and produced

vars == <<env, pc, clock, timestamp, latest_hw_status, api_answer,
          previous_hw_status, error, log, exit_status, cycle, requests,
          sent, slept, hist>>

-----------------------------------------------------------------------------
(* Bounds of the model.                                                    *)

MaxCycles == 3
StartTime == 1000

-----------------------------------------------------------------------------
(* Python values, tagged by type.                                          *)

None == [t |-> "None"]
Unbound == [t |-> "unbound"]
Str(s) == [t |-> "str", s |-> s]
Num(i) == [t |-> "int", i |-> i]
List(l) == [t |-> "list", l |-> l]
Dict(d) == [t |-> "dict", d |-> d]

isinstance(v, type) == v.t = type

\* key in dict
HasKey(v, k) == k \in DOMAIN v.d

\* dict.get(key): the value, None when the key is absent
get(v, k) == IF HasKey(v, k) THEN v.d[k] ELSE None

-----------------------------------------------------------------------------
(* Exceptions and call results.                                            *)

NoError == [type |-> "NoError", msg |-> ""]
Exc(type, msg) == [type |-> type, msg |-> msg]
Return(v) == [exc |-> NoError, val |-> v]
Raise(type, msg) == [exc |-> Exc(type, msg), val |-> Unbound]

\* str(error), as the f-string of the handler renders it: KeyError shows the
\* repr of its argument, every other exception its message
str(e) == IF e.type = "KeyError" THEN "'" \o e.msg \o "'" ELSE e.msg

\* The classes `except Exception` catches: everything raised here but SystemExit
ExceptionClasses ==
    {"NoConnectionToAPIError", "HwHaveNoStatusError", "HwHaveNoNameError",
     "SendMessageError", "JsonDecodeError", "TypeError", "KeyError",
     "AttributeError"}

except_Exception_custom_only(e) ==
    e.type \in {"NoConnectionToAPIError", "HwHaveNoStatusError",
                "HwHaveNoNameError", "SendMessageError", "JsonDecodeError"}

except_Exception(e) == e.type \in ExceptionClasses

-----------------------------------------------------------------------------
(* Program constants.                                                      *)

RETRY_PERIOD == 600

HTTP_OK == 200

HOMEWORK_VERDICTS ==
    [approved |-> "Work checked: the reviewer liked everything. Hooray!",
     reviewing |-> "Work taken for review by the reviewer.",
     rejected |-> "Work checked: the reviewer has remarks."]

UNAVAILABLE_ENDPIONT_ERROR == "Endpoint <ENDPOINT> is unavailable!"
AVAILABLE_ENDPOINT_MESSAGE == "Endpoint <ENDPOINT> is available!"
NO_TOKEN_ERROR == "One or more environment variables are missing! Shutting the bot down..."
WRONG_RESPONSE_ERROR == "The API response did not come as a dict!"
NO_KEY_ERROR == "The API response lacks the needed key!"
NO_LIST_ERROR == "The API response has no list under response[homeworks]!"
UNKNOWN_STATUS_ERROR == "The API returned an undocumented homework status or a homework without status!"
SEND_MESSAGE_ERROR == "Error while sending the message to Telegram!"
SUCCESS_SENT_MESSAGE == "The bot sent the message to Telegram!"
DECODE_ERROR == "Error converting to a Python data type!"
HW_HAVE_NO_STATUS == "The homework has no status yet!"

TokenNames == {"PRACTICUM_TOKEN", "TELEGRAM_TOKEN", "TELEGRAM_CHAT_ID"}

-----------------------------------------------------------------------------
(* Inputs: what os.getenv, the HTTP endpoint and the bot API can answer.   *)

\* os.getenv: None for an unset variable, else its text (possibly empty)
TokenValues == {None, Str(""), Str("token")}

\* the records the endpoint reports in the loop: two that format to different
\* messages, one with an undocumented status, one without a name
Homeworks ==
    {Dict([homework_name |-> Str("cat_project"), status |-> Str("approved")]),
     Dict([homework_name |-> Str("cat_project"), status |-> Str("rejected")]),
     Dict([homework_name |-> Str("cat_project"), status |-> Str("unknown")]),
     Dict([status |-> Str("approved")])}

Bodies ==
    {Dict([homeworks |-> List(<<h>>)]) : h \in Homeworks}
    \cup {Dict([homeworks |-> List(<<>>)]),
          Dict([homeworks |-> Str("x")]),
          Dict([current_date |-> Num(1)]),
          List(<<>>)}

\* the records parse_status is applied to on its own: every pairing of a
\* name (absent, null, text, number) with a status (absent, null, the three
\* documented codes, other text, a number)
FormatterNames == {Unbound, None, Str("cat_project"), Str("hw2"), Str(""), Num(7)}

FormatterStatuses ==
    {Unbound, None, Str("approved"), Str("reviewing"), Str("rejected"),
     Str("unknown"), Str(""), Str("APPROVED"), Num(1)}

Record(name, status) ==
    IF name = Unbound /\ status = Unbound THEN Dict([id |-> Num(1)])
    ELSE IF name = Unbound THEN Dict([status |-> status])
    ELSE IF status = Unbound THEN Dict([homework_name |-> name])
    ELSE Dict([homework_name |-> name, status |-> status])

FormatterInputs == {Record(n, s) : n \in FormatterNames, s \in FormatterStatuses}

\* One HTTP exchange: requests.get raises a RequestException, or answers
\* with a status code and a body that json() decodes or fails to decode.
HttpOutcomes ==
    {[raises |-> TRUE, status_code |-> 0, decodes |-> FALSE, json |-> Unbound]}
    \cup {[raises |-> FALSE, status_code |-> 500, decodes |-> TRUE,
           json |-> Dict([current_date |-> Num(1)])]}
    \cup {[raises |-> FALSE, status_code |-> HTTP_OK, decodes |-> FALSE, json |-> Unbound]}
    \cup {[raises |-> FALSE, status_code |-> HTTP_OK, decodes |-> TRUE, json |-> b] : b \in Bodies}

-----------------------------------------------------------------------------
(* The functions of homework.py.                                           *)

\* check_tokens, a variant that exits only when all three are missing
check_tokens_all_missing(e) ==
    LET empty_tokens == {token \in TokenNames : e[token] = None}
    IN IF Cardinality(empty_tokens) = 3
       THEN Raise("SystemExit", NO_TOKEN_ERROR)
       ELSE Return(None)

\* check_tokens: SystemExit when a token is None
check_tokens(e) ==
    LET empty_tokens == {token \in TokenNames : e[token] = None}
    IN IF Cardinality(empty_tokens) # 0
       THEN Raise("SystemExit", NO_TOKEN_ERROR)
       ELSE Return(None)

\* get_api_answer, a variant whose except clause re-raises the network
\* failure as NoConnectionToAPIError
get_api_answer_raises_on_network_error(ts, http) ==
    IF http.raises \/ http.status_code # HTTP_OK
    THEN Raise("NoConnectionToAPIError", UNAVAILABLE_ENDPIONT_ERROR)
    ELSE IF http.decodes THEN Return(http.json)
         ELSE Raise("JsonDecodeError", DECODE_ERROR)

\* get_api_answer, a variant whose except clause also swallows the error it
\* raises for a status code other than 200
get_api_answer_swallows_status(ts, http) ==
    IF http.raises \/ http.status_code # HTTP_OK THEN Return(None)
    ELSE IF http.decodes THEN Return(http.json)
         ELSE Raise("JsonDecodeError", DECODE_ERROR)

\* get_api_answer: the RequestException is swallowed and the function falls
\* off its end (returns None); the two raises inside go to the caller
get_api_answer(ts, http) ==
    IF http.raises THEN Return(None)
    ELSE IF http.status_code # HTTP_OK
         THEN Raise("NoConnectionToAPIError", UNAVAILABLE_ENDPIONT_ERROR)
         ELSE IF http.decodes THEN Return(http.json)
              ELSE Raise("JsonDecodeError", DECODE_ERROR)

\* what get_api_answer logs
get_api_answer_log(http) ==
    IF http.raises THEN {<<"error", UNAVAILABLE_ENDPIONT_ERROR \o ". Error: RequestException">>}
    ELSE IF http.status_code # HTTP_OK
         THEN {<<"error", UNAVAILABLE_ENDPIONT_ERROR>>}
         ELSE {<<"info", AVAILABLE_ENDPOINT_MESSAGE>>}

\* check_response, a variant without the dict test: whatever has no key
\* homeworks is reported as lacking the key
check_response_no_dict_test(response) ==
    IF ~isinstance(response, "dict") \/ ~HasKey(response, "homeworks")
    THEN Raise("KeyError", NO_KEY_ERROR)
    ELSE IF ~isinstance(response.d["homeworks"], "list")
         THEN Raise("TypeError", NO_LIST_ERROR)
         ELSE Return(None)

\* check_response, a variant that also rejects an empty list
check_response_rejects_empty(response) ==
    IF ~isinstance(response, "dict") THEN Raise("TypeError", WRONG_RESPONSE_ERROR)
    ELSE IF ~HasKey(response, "homeworks") THEN Raise("KeyError", NO_KEY_ERROR)
    ELSE IF ~isinstance(response.d["homeworks"], "list")
            \/ response.d["homeworks"].l = <<>>
         THEN Raise("TypeError", NO_LIST_ERROR)
         ELSE Return(None)

\* check_response
check_response(response) ==
    IF ~isinstance(response, "dict") THEN Raise("TypeError", WRONG_RESPONSE_ERROR)
    ELSE IF ~HasKey(response, "homeworks") THEN Raise("KeyError", NO_KEY_ERROR)
    ELSE IF ~isinstance(response.d["homeworks"], "list")
         THEN Raise("TypeError", NO_LIST_ERROR)
         ELSE Return(None)

\* homework_status in HOMEWORK_VERDICTS
InVerdicts(v) == isinstance(v, "str") /\ v.s \in DOMAIN HOMEWORK_VERDICTS

\* how an f-string renders a value
Format(v) ==
    IF isinstance(v, "str") THEN v.s
    ELSE IF isinstance(v, "int") THEN ToString(v.i)
    ELSE "None"

\* the f-string of parse_status
StatusMessage(homework_name, verdict) ==
    "Status of the review of work \"" \o Format(homework_name) \o "\" changed. " \o verdict

\* parse_status, a variant that checks the name before the status
parse_status_name_first(homework) ==
    LET homework_name == get(homework, "homework_name")
        homework_status == get(homework, "status")
    IN IF ~HasKey(homework, "homework_name")
       THEN Raise("HwHaveNoNameError", NO_KEY_ERROR)
       ELSE IF ~InVerdicts(homework_status)
            THEN Raise("HwHaveNoStatusError", UNKNOWN_STATUS_ERROR)
            ELSE Return(Str(StatusMessage(homework_name,
                                          HOMEWORK_VERDICTS[homework_status.s])))

\* parse_status
parse_status(homework) ==
    LET homework_name == get(homework, "homework_name")
        homework_status == get(homework, "status")
    IN IF ~InVerdicts(homework_status)
       THEN Raise("HwHaveNoStatusError", UNKNOWN_STATUS_ERROR)
       ELSE IF ~HasKey(homework, "homework_name")
            THEN Raise("HwHaveNoNameError", NO_KEY_ERROR)
            ELSE Return(Str(StatusMessage(homework_name,
                                          HOMEWORK_VERDICTS[homework_status.s])))

\* send_message, a variant whose raise stands after the try statement
send_message_raises_after_delivery(message, delivered) ==
    Raise("SendMessageError", SEND_MESSAGE_ERROR)

\* send_message: SendMessageError when the bot call raises TelegramError
send_message(message, delivered) ==
    IF delivered THEN Return(None)
    ELSE Raise("SendMessageError", SEND_MESSAGE_ERROR)

send_message_log(delivered) ==
    IF delivered THEN {<<"debug", SUCCESS_SENT_MESSAGE>>}
    ELSE {<<"error", SEND_MESSAGE_ERROR>>}

\* the f-string of the handler
FailureMessage(e) == "Program failure: " \o str(e)

-----------------------------------------------------------------------------
(* The decisions of main.                                                  *)

\* a variant that asks for what is new since the current time
from_date_now(ts, now) == Num(now)

\* params={'from_date': timestamp}: the argument main passes, its timestamp,
\* which the loop never assigns
from_date(ts, now) == ts

\* len(api_answer.get('homeworks', HW_HAVE_NO_STATUS)) == 0
no_homeworks(answer) == Len(answer.d["homeworks"].l) = 0

should_notify_always(previous, latest) == TRUE

\* previous_hw_status != latest_hw_status
should_notify(previous, latest) == previous # latest

new_latest_kept(previous, latest) == latest

\* latest_hw_status = previous_hw_status
new_latest(previous, latest) == previous

finally_runs_only_without_error(e) == e = NoError

\* the finally clause runs on every way out of the try statement
finally_runs(e) == TRUE

-----------------------------------------------------------------------------
(* The state machine.                                                      *)

SentEntry(kind, message, delivered) ==
    [cycle |-> cycle, kind |-> kind, msg |-> message, ok |-> delivered]

HistEntry(http, answer, raised) ==
    [latest_at_start |-> latest_hw_status, timestamp_at_start |-> timestamp,
     http |-> http, answer |-> answer, produced |-> None, raised |-> raised]

Init ==
    /\ env \in [TokenNames -> TokenValues]
    /\ pc = "start"
    /\ clock = StartTime
    /\ timestamp = Unbound
    /\ latest_hw_status = Unbound
    /\ api_answer = Unbound
    /\ previous_hw_status = Unbound
    /\ error = NoError
    /\ log = {}
    /\ exit_status = None
    /\ cycle = 0
    /\ requests = <<>>
    /\ sent = <<>>
    /\ slept = <<>>
    /\ hist = <<>>

\* main, up to the loop: check_tokens, the bot, the timestamp, latest_hw_status
Startup ==
    /\ pc = "start"
    /\ LET r == check_tokens(env)
       IN IF r.exc # NoError
          THEN /\ pc' = "exited"
               /\ log' = log \cup {<<"critical", NO_TOKEN_ERROR>>}
               /\ exit_status' = Str(r.exc.msg)
               /\ UNCHANGED <<timestamp, latest_hw_status>>
          ELSE /\ pc' = "fetch"
               /\ timestamp' = Num(clock)
               /\ latest_hw_status' = None
               /\ UNCHANGED <<log, exit_status>>
    /\ UNCHANGED <<env, clock, api_answer, previous_hw_status, error, cycle,
                   requests, sent, slept, hist>>

\* api_answer = get_api_answer(timestamp)
Fetch(http) ==
    /\ pc = "fetch"
    /\ cycle < MaxCycles
    /\ LET r == get_api_answer(timestamp, http)
       IN /\ cycle' = cycle + 1
          /\ requests' = Append(requests, from_date(timestamp, clock))
          /\ slept' = <<>>
          /\ log' = log \cup get_api_answer_log(http)
          /\ hist' = Append(hist, HistEntry(http, r.val, r.exc))
          /\ IF r.exc = NoError
             THEN /\ api_answer' = r.val
                  /\ pc' = "validate"
                  /\ UNCHANGED error
             ELSE /\ error' = r.exc
                  /\ pc' = "handler"
                  /\ UNCHANGED api_answer
    /\ UNCHANGED <<env, clock, timestamp, latest_hw_status, previous_hw_status,
                   exit_status, sent>>

\* check_response(api_answer)
Validate ==
    /\ pc = "validate"
    /\ LET r == check_response(api_answer)
       IN IF r.exc = NoError
          THEN /\ pc' = "extract"
               /\ UNCHANGED <<error, hist>>
          ELSE /\ error' = r.exc
               /\ hist' = [hist EXCEPT ![cycle].raised = r.exc]
               /\ pc' = "handler"
    /\ UNCHANGED <<env, clock, timestamp, latest_hw_status, api_answer,
                   previous_hw_status, log, exit_status, cycle, requests, sent,
                   slept>>

\* the if/else of the try body, up to the assignment of latest_hw_status
Extract ==
    /\ pc = "extract"
    /\ IF no_homeworks(api_answer)
       THEN /\ log' = log \cup {<<"warning", HW_HAVE_NO_STATUS>>}
            /\ slept' = Append(slept, 0)
            /\ pc' = "sleep"
            /\ UNCHANGED <<previous_hw_status, latest_hw_status, error, hist>>
       ELSE LET homework == api_answer.d["homeworks"].l[1]
                r == IF isinstance(homework, "dict")
                     THEN parse_status(homework)
                     ELSE Raise("AttributeError", "object has no attribute 'get'")
            IN IF r.exc # NoError
               THEN /\ error' = r.exc
                    /\ hist' = [hist EXCEPT ![cycle].raised = r.exc]
                    /\ pc' = "handler"
                    /\ UNCHANGED <<previous_hw_status, latest_hw_status, log, slept>>
               ELSE /\ previous_hw_status' = r.val
                    /\ hist' = [hist EXCEPT ![cycle].produced = r.val]
                    /\ IF should_notify(r.val, latest_hw_status)
                       THEN /\ latest_hw_status' = new_latest(r.val, latest_hw_status)
                            /\ pc' = "notify"
                       ELSE /\ pc' = "sleep"
                            /\ UNCHANGED latest_hw_status
                    /\ UNCHANGED <<error, log, slept>>
    /\ UNCHANGED <<env, clock, timestamp, api_answer, exit_status, cycle,
                   requests, sent>>

\* send_message(bot, previous_hw_status)
Notify(delivered) ==
    /\ pc = "notify"
    /\ LET r == send_message(previous_hw_status.s, delivered)
       IN /\ sent' = Append(sent, SentEntry("status", previous_hw_status.s, delivered))
          /\ log' = log \cup send_message_log(delivered)
          /\ IF r.exc = NoError
             THEN /\ pc' = "sleep"
                  /\ UNCHANGED <<error, hist>>
             ELSE /\ error' = r.exc
                  /\ hist' = [hist EXCEPT ![cycle].raised = r.exc]
                  /\ pc' = "handler"
    /\ UNCHANGED <<env, clock, timestamp, latest_hw_status, api_answer,
                   previous_hw_status, exit_status, cycle, requests, slept>>

\* except Exception as error: message, logger.error, send_message(bot, message)
Handler(delivered) ==
    /\ pc = "handler"
    /\ IF except_Exception(error)
       THEN LET message == FailureMessage(error)
                r == send_message(message, delivered)
            IN /\ sent' = Append(sent, SentEntry("failure", message, delivered))
               /\ log' = log \cup {<<"error", message>>} \cup send_message_log(delivered)
               /\ error' = r.exc
       ELSE \* not caught: no send happens, the exception stays in flight
            /\ delivered
            /\ UNCHANGED <<sent, log, error>>
    /\ pc' = "sleep"
    /\ UNCHANGED <<env, clock, timestamp, latest_hw_status, api_answer,
                   previous_hw_status, exit_status, cycle, requests, slept, hist>>

\* finally: time.sleep(RETRY_PERIOD); then the next iteration, or the
\* exception the handler raised leaves the loop and main
Sleep ==
    /\ pc = "sleep"
    /\ IF finally_runs(error)
       THEN /\ slept' = Append(slept, RETRY_PERIOD)
            /\ clock' = clock + RETRY_PERIOD
       ELSE UNCHANGED <<slept, clock>>
    /\ pc' = IF error = NoError THEN "fetch" ELSE "crashed"
    /\ UNCHANGED <<env, timestamp, latest_hw_status, api_answer,
                   previous_hw_status, error, log, exit_status, cycle, requests,
                   sent, hist>>

Next ==
    \/ Startup
    \/ \E http \in HttpOutcomes : Fetch(http)
    \/ Validate
    \/ Extract
    \/ \E delivered \in BOOLEAN : Notify(delivered)
    \/ \E delivered \in BOOLEAN : Handler(delivered)
    \/ Sleep

Spec == Init /\ [][Next]_vars

-----------------------------------------------------------------------------
(* parse_status on its own: one record in, a message or an exception out.  *)

InitFormatter ==
    /\ env = [token \in TokenNames |-> Str("token")]
    /\ pc = "parse"
    /\ clock = StartTime
    /\ timestamp = Num(StartTime)
    /\ latest_hw_status = None
    /\ api_answer \in {Dict([homeworks |-> List(<<h>>)]) : h \in FormatterInputs}
    /\ previous_hw_status = Unbound
    /\ error = NoError
    /\ log = {}
    /\ exit_status = None
    /\ cycle = 0
    /\ requests = <<>>
    /\ sent = <<>>
    /\ slept = <<>>
    /\ hist = <<>>

\* previous_hw_status = parse_status(api_answer.get('homeworks')[0])
ParseStatus ==
    /\ pc = "parse"
    /\ LET r == parse_status(api_answer.d["homeworks"].l[1])
       IN IF r.exc = NoError
          THEN previous_hw_status' = r.val /\ UNCHANGED error
          ELSE error' = r.exc /\ UNCHANGED previous_hw_status
    /\ pc' = "parsed"
    /\ UNCHANGED <<env, clock, timestamp, latest_hw_status, api_answer, log,
                   exit_status, cycle, requests, sent, slept, hist>>

SpecFormatter == InitFormatter /\ [][ParseStatus]_vars

-----------------------------------------------------------------------------
(* Vocabulary of the properties.                                           *)

LoopPositions == {"fetch", "validate", "extract", "notify", "handler", "sleep"}

\* the tokens pass the start-up check
ChecksPassed == \A token \in TokenNames : env[token] # None

\* the bot.send_message calls of iteration k, in order
SendsIn(k) == SelectSeq(sent, LAMBDA e : e.cycle = k)

\* the calls that carried a status message, and those that carried a failure message
StatusSends == SelectSeq(sent, LAMBDA e : e.kind = "status")
FailureSendsIn(k) == SelectSeq(sent, LAMBDA e : e.cycle = k /\ e.kind = "failure")

AllDelivered(s) == \A i \in DOMAIN s : s[i].ok

\* iteration k has run to its end: its finally clause has slept
CycleDone(k) == k < cycle \/ (k = cycle /\ pc \in {"fetch", "crashed"})

\* latest_hw_status as iteration k left it
LatestAfter(k) == IF k < cycle THEN hist[k + 1].latest_at_start ELSE latest_hw_status

\* how many of the sleeps of the current iteration lasted RETRY_PERIOD
RetrySleeps == Cardinality({i \in DOMAIN slept : slept[i] = RETRY_PERIOD})

IsEmptyHomeworks(v) ==
    /\ isinstance(v, "dict")
    /\ HasKey(v, "homeworks")
    /\ isinstance(v.d["homeworks"], "list")
    /\ v.d["homeworks"].l = <<>>

-----------------------------------------------------------------------------
\* C1: once the start-up check has passed the poll loop never terminates: the
\* process is always at a position of the loop, whatever fetch, validation,
\* formatting and send did, a failed send of the failure message included.
C1_LoopNeverTerminates == ChecksPassed => pc \in {"start"} \cup LoopPositions

-----------------------------------------------------------------------------
\* C2 (as stated): every status message is passed to the notifier at most
\* once over the whole run.
C2_AtMostOncePerMessage ==
    \A i, j \in DOMAIN StatusSends :
        StatusSends[i].msg = StatusSends[j].msg => i = j

\* C2 (amended): two consecutive notifier calls with a status message never
\* carry the same message, and a call with status message M happens only in
\* an iteration that began with latest_hw_status different from M.
C2_NoConsecutiveRepeat ==
    /\ \A i \in 1 .. Len(StatusSends) - 1 :
           StatusSends[i].msg # StatusSends[i + 1].msg
    /\ \A i \in DOMAIN StatusSends :
           hist[StatusSends[i].cycle].latest_at_start # Str(StatusSends[i].msg)

\* three iterations notified M1, M2, M1
C2_Witness ==
    /\ Len(StatusSends) = 3
    /\ StatusSends[1].msg = StatusSends[3].msg
    /\ StatusSends[1].msg # StatusSends[2].msg

-----------------------------------------------------------------------------
\* C3: an iteration whose formatted message equals latest_hw_status as the
\* iteration found it calls the notifier not at all; and when the first two
\* iterations of a run both produce M and every send succeeds, the notifier
\* is called exactly once over both, in the first, with M.
C3_Idempotence ==
    /\ \A k \in 1 .. cycle :
           (hist[k].produced # None /\ hist[k].produced = hist[k].latest_at_start)
               => SendsIn(k) = <<>>
    /\ (/\ cycle >= 2
        /\ CycleDone(2)
        /\ hist[1].produced # None
        /\ hist[1].produced = hist[2].produced
        /\ AllDelivered(SendsIn(1) \o SendsIn(2)))
       => SendsIn(1) \o SendsIn(2) =
              <<[cycle |-> 1, kind |-> "status", msg |-> hist[1].produced.s, ok |-> TRUE]>>

C3_Witness ==
    /\ cycle = 2
    /\ pc = "fetch"
    /\ hist[1].produced # None
    /\ hist[1].produced = hist[2].produced
    /\ Len(sent) = 1
    /\ sent[1].ok

-----------------------------------------------------------------------------
\* the two notifier calls of change detection, and the state they leave
ChangeNotified(k) ==
    /\ SendsIn(k) \o SendsIn(k + 1) =
           <<[cycle |-> k, kind |-> "status", msg |-> hist[k].produced.s, ok |-> TRUE],
             [cycle |-> k + 1, kind |-> "status", msg |-> hist[k + 1].produced.s, ok |-> TRUE]>>
    /\ LatestAfter(k + 1) = hist[k + 1].produced

\* iteration k produced M1, iteration k+1 produced M2 # M1, every send succeeded
ChangeCase(k) ==
    /\ CycleDone(k + 1)
    /\ hist[k].produced # None
    /\ hist[k + 1].produced # None
    /\ hist[k].produced # hist[k + 1].produced
    /\ AllDelivered(SendsIn(k) \o SendsIn(k + 1))

\* C4 (as stated): whenever an iteration produces M1 and the next produces
\* M2 # M1, sends succeeding, the notifier is called exactly twice, with M1
\* then M2, and latest_hw_status is M2 afterwards.
C4_ChangeDetectionAnyCycle ==
    \A k \in 1 .. cycle - 1 : ChangeCase(k) => ChangeNotified(k)

\* C4 (amended): the same, for an iteration that began with latest_hw_status
\* different from M1 (as the first iteration of a run does).
C4_ChangeDetection ==
    \A k \in 1 .. cycle - 1 :
        (ChangeCase(k) /\ hist[k].latest_at_start # hist[k].produced)
            => ChangeNotified(k)

C4_Witness ==
    \E k \in 1 .. cycle - 1 :
        /\ ChangeCase(k)
        /\ hist[k].latest_at_start # hist[k].produced
        /\ ChangeNotified(k)

-----------------------------------------------------------------------------
\* C5: an iteration in whose try body an exception was raised makes exactly
\* one notifier call with a failure message, the message of that exception,
\* by the time it leaves the handler; an iteration without one makes none.
C5_FailureReportedOnce ==
    \A k \in 1 .. cycle :
        /\ Len(FailureSendsIn(k)) <= 1
        /\ (hist[k].raised = NoError) => FailureSendsIn(k) = <<>>
        /\ (hist[k].raised # NoError /\ (CycleDone(k) \/ pc = "sleep"))
               => /\ Len(FailureSendsIn(k)) = 1
                  /\ FailureSendsIn(k)[1].msg = FailureMessage(hist[k].raised)

\* two consecutive iterations failed with the same failure message and each
\* attempted to send it
C5_Witness ==
    \E k \in 1 .. cycle - 1 :
        /\ CycleDone(k + 1)
        /\ hist[k].raised # NoError
        /\ hist[k].raised = hist[k + 1].raised
        /\ Len(FailureSendsIn(k)) = 1
        /\ Len(FailureSendsIn(k + 1)) = 1
        /\ FailureSendsIn(k)[1].msg = FailureSendsIn(k + 1)[1].msg

-----------------------------------------------------------------------------
\* C6: between the fetch of an iteration and its end no RETRY_PERIOD sleep has
\* happened yet; at its end (before the next fetch, or when the exception of
\* the handler leaves the loop) exactly one has; so every fetch but the first
\* is preceded by the sleep of the iteration before it, and the clock has
\* advanced by RETRY_PERIOD per finished iteration.
C6_SleepOncePerCycle ==
    /\ pc \in {"validate", "extract", "notify", "handler", "sleep"} => RetrySleeps = 0
    /\ (cycle >= 1 /\ pc \in {"fetch", "crashed"}) => RetrySleeps = 1
    /\ pc \in {"fetch", "crashed"} => clock = StartTime + cycle * RETRY_PERIOD
    /\ Len(requests) = cycle

\* the handler's own send failed, and the iteration slept all the same
C6_Witness ==
    /\ pc = "crashed"
    /\ error.type = "SendMessageError"
    /\ slept = <<RETRY_PERIOD>>

-----------------------------------------------------------------------------
\* C7: an iteration whose fetched response is a mapping with an empty
\* homeworks list never reaches the notifier or the handler, raises nothing,
\* calls the notifier not at all, and leaves latest_hw_status and timestamp
\* as it found them.
C7_EmptyHomeworks ==
    \A k \in 1 .. cycle :
        IsEmptyHomeworks(hist[k].answer)
            => /\ SendsIn(k) = <<>>
               /\ hist[k].raised = NoError
               /\ LatestAfter(k) = hist[k].latest_at_start
               /\ timestamp = hist[k].timestamp_at_start
               /\ k = cycle => (pc \in {"validate", "extract", "sleep", "fetch"}
                                /\ error = NoError)

C7_Witness ==
    /\ cycle >= 2
    /\ pc = "sleep"
    /\ IsEmptyHomeworks(hist[cycle].answer)
    /\ hist[cycle].latest_at_start # None
    /\ 0 \in {slept[i] : i \in DOMAIN slept}

-----------------------------------------------------------------------------
\* C8: with one of the three values unset the process never enters the loop:
\* it issues no HTTP request and no bot call, and when it has exited it has
\* logged the critical diagnostic; the loop is entered only after the check
\* passed.
C8_UnsetTokenExits ==
    /\ (\E token \in TokenNames : env[token] = None)
           => /\ pc \in {"start", "exited"}
              /\ requests = <<>>
              /\ sent = <<>>
              /\ cycle = 0
    /\ pc = "exited" => /\ <<"critical", NO_TOKEN_ERROR>> \in log
                        /\ exit_status = Str(NO_TOKEN_ERROR)
    /\ pc \in LoopPositions \cup {"crashed"} => ChecksPassed

\* TELEGRAM_CHAT_ID alone is unset and the process has exited
C8_Witness ==
    /\ pc = "exited"
    /\ env["TELEGRAM_CHAT_ID"] = None
    /\ env["PRACTICUM_TOKEN"] = Str("token")
    /\ env["TELEGRAM_TOKEN"] = Str("token")
    /\ <<"critical", NO_TOKEN_ERROR>> \in log

-----------------------------------------------------------------------------
\* C9: with one of the three values set to the empty string the process
\* never enters the loop.
C9_EmptyTokenExits ==
    (\E token \in TokenNames : env[token] = Str("")) => pc \in {"start", "exited"}

-----------------------------------------------------------------------------
\* the record parse_status was applied to
ParsedRecord == api_answer.d["homeworks"].l[1]

DocumentedStatuses == {Str("approved"), Str("reviewing"), Str("rejected")}

StatusRecognized(homework) ==
    HasKey(homework, "status") /\ homework.d["status"] \in DocumentedStatuses

\* C10: parse_status looks at the status first. A record whose status is
\* absent or not one of approved, reviewing, rejected fails with
\* HwHaveNoStatusError, with or without a name; a record with a documented
\* status and no name fails with HwHaveNoNameError; every other record
\* yields the message that embeds the name and the verdict of the status.
C10_StatusBeforeName ==
    pc = "parsed" =>
        /\ ~StatusRecognized(ParsedRecord)
               => /\ error = Exc("HwHaveNoStatusError", UNKNOWN_STATUS_ERROR)
                  /\ previous_hw_status = Unbound
        /\ (StatusRecognized(ParsedRecord) /\ ~HasKey(ParsedRecord, "homework_name"))
               => /\ error = Exc("HwHaveNoNameError", NO_KEY_ERROR)
                  /\ previous_hw_status = Unbound
        /\ (StatusRecognized(ParsedRecord) /\ HasKey(ParsedRecord, "homework_name"))
               => /\ error = NoError
                  /\ previous_hw_status =
                         Str("Status of the review of work \""
                             \o Format(ParsedRecord.d["homework_name"])
                             \o "\" changed. "
                             \o HOMEWORK_VERDICTS[ParsedRecord.d["status"].s])
        /\ ParsedRecord = Dict([homework_name |-> Str("cat_project"),
                                status |-> Str("approved")])
               => previous_hw_status =
                      Str("Status of the review of work \"cat_project\" changed. Work checked: the reviewer liked everything. Hooray!")

\* a record without a name and with an undocumented status: the status error
C10_Witness ==
    /\ pc = "parsed"
    /\ ~HasKey(ParsedRecord, "homework_name")
    /\ HasKey(ParsedRecord, "status")
    /\ ParsedRecord.d["status"] = Str("unknown")
    /\ error.type = "HwHaveNoStatusError"

-----------------------------------------------------------------------------
\* C11: check_response sorts every decoded body into exactly one of four
\* outcomes, tested in this order: not a dict -> TypeError with
\* WRONG_RESPONSE_ERROR; a dict without the key homeworks -> KeyError with
\* NO_KEY_ERROR; homeworks not a list -> TypeError with NO_LIST_ERROR;
\* otherwise no exception and the loop goes on to the extraction. The step
\* changes no variable of the loop and makes no notifier call.
C11_ValidatorClassifies ==
    [][pc = "validate" =>
        /\ IF ~isinstance(api_answer, "dict")
           THEN pc' = "handler" /\ error' = Exc("TypeError", WRONG_RESPONSE_ERROR)
           ELSE IF "homeworks" \notin DOMAIN api_answer.d
           THEN pc' = "handler" /\ error' = Exc("KeyError", NO_KEY_ERROR)
           ELSE IF api_answer.d["homeworks"].t # "list"
           THEN pc' = "handler" /\ error' = Exc("TypeError", NO_LIST_ERROR)
           ELSE pc' = "extract" /\ error' = NoError
        /\ UNCHANGED <<latest_hw_status, timestamp, api_answer,
                       previous_hw_status, sent, requests, cycle, slept, clock>>
      ]_vars

\* a body that is no dict was classified, and the step sent nothing
C11_Witness ==
    /\ pc = "handler"
    /\ api_answer = List(<<>>)
    /\ hist[cycle].answer = api_answer
    /\ error = Exc("TypeError", WRONG_RESPONSE_ERROR)
    /\ SendsIn(cycle) = <<>>

-----------------------------------------------------------------------------
\* the exception get_api_answer raised in iteration k has reached the caller:
\* it is in flight at the handler, or the handler has sent its message
ReachedCaller(k, e) ==
    /\ hist[k].answer = Unbound
    /\ hist[k].raised = e
    /\ \/ k = cycle /\ pc = "handler" /\ error = e
       \/ /\ Len(FailureSendsIn(k)) = 1
          /\ FailureSendsIn(k)[1].msg = FailureMessage(e)

\* C12: get_api_answer raises NoConnectionToAPIError to its caller for a
\* status code other than 200 and JsonDecodeError for a 200 body that does
\* not decode; a RequestException of requests.get is logged as an error and
\* stays inside the call, which returns None; a 200 response with a
\* decodable body returns that body as decoded.
C12_FetcherOutcomes ==
    \A k \in 1 .. cycle :
        LET h == hist[k].http
        IN /\ (~h.raises /\ h.status_code # HTTP_OK)
                  => ReachedCaller(k, Exc("NoConnectionToAPIError", UNAVAILABLE_ENDPIONT_ERROR))
           /\ (~h.raises /\ h.status_code = HTTP_OK /\ ~h.decodes)
                  => ReachedCaller(k, Exc("JsonDecodeError", DECODE_ERROR))
           /\ h.raises
                  => /\ hist[k].answer = None
                     /\ \E entry \in log : entry[1] = "error"
                     /\ hist[k].raised.type \notin {"NoConnectionToAPIError", "JsonDecodeError"}
           /\ (~h.raises /\ h.status_code = HTTP_OK /\ h.decodes)
                  => hist[k].answer = h.json

\* a status code other than 200 made the call raise, and the exception is
\* in flight at the caller
C12_Witness ==
    /\ cycle >= 1
    /\ pc = "handler"
    /\ ~hist[cycle].http.raises
    /\ hist[cycle].http.status_code # HTTP_OK
    /\ error.type = "NoConnectionToAPIError"

-----------------------------------------------------------------------------
\* iteration k is past its check_response call
Validated(k) == k < cycle \/ pc # "validate"

\* iteration k is past its handler
Handled(k) == k < cycle \/ pc \in {"sleep", "fetch", "crashed"}

\* C13 (as stated): an iteration whose fetch met a network failure goes on
\* as if the homeworks list were empty: no notifier call, no exception at
\* the handler.
C13_NetworkFailureAsEmpty ==
    \A k \in 1 .. cycle :
        hist[k].http.raises
            => /\ SendsIn(k) = <<>>
               /\ hist[k].raised = NoError
               /\ k = cycle => pc \notin {"handler", "crashed"}

\* C13 (amended): an iteration whose fetch met a network failure gets None
\* from get_api_answer; check_response raises TypeError with
\* WRONG_RESPONSE_ERROR on it, the handler catches it and makes the one
\* notifier call of the iteration, with the failure message of that error;
\* no status message is formatted or sent, latest_hw_status stays as it was,
\* and the iteration ends with its RETRY_PERIOD sleep.
C13_NetworkFailureReported ==
    \A k \in 1 .. cycle :
        hist[k].http.raises
            => /\ hist[k].answer = None
               /\ hist[k].produced = None
               /\ LatestAfter(k) = hist[k].latest_at_start
               /\ Validated(k)
                      => hist[k].raised = Exc("TypeError", WRONG_RESPONSE_ERROR)
               /\ IF Handled(k)
                  THEN /\ Len(SendsIn(k)) = 1
                       /\ SendsIn(k)[1].kind = "failure"
                       /\ SendsIn(k)[1].msg =
                              FailureMessage(Exc("TypeError", WRONG_RESPONSE_ERROR))
                  ELSE SendsIn(k) = <<>>
               /\ (k = cycle /\ pc \in {"fetch", "crashed"}) => RetrySleeps = 1

\* a network failure was reported through the notifier and the iteration
\* has slept
C13_Witness ==
    /\ cycle >= 1
    /\ pc = "fetch"
    /\ hist[cycle].http.raises
    /\ Len(SendsIn(cycle)) = 1
    /\ SendsIn(cycle)[1].kind = "failure"
    /\ SendsIn(cycle)[1].ok
    /\ slept = <<RETRY_PERIOD>>

-----------------------------------------------------------------------------
\* C14: the from_date of every request is the timestamp main took at
\* start-up, and so is the variable timestamp at every point of the loop,
\* however much the clock has advanced and whatever the iterations did.
C14_CursorNeverAdvances ==
    pc \in LoopPositions \cup {"crashed"}
        => /\ timestamp = Num(StartTime)
           /\ \A i \in DOMAIN requests : requests[i] = Num(StartTime)
           /\ \A k \in 1 .. cycle : hist[k].timestamp_at_start = Num(StartTime)

\* the third request, after an iteration that notified and one that failed
C14_Witness ==
    /\ cycle = 3
    /\ Len(requests) = 3
    /\ clock > StartTime
    /\ Len(SendsIn(1)) = 1 /\ SendsIn(1)[1].kind = "status" /\ SendsIn(1)[1].ok
    /\ hist[2].raised # NoError
    /\ requests[3] = Num(StartTime)

-----------------------------------------------------------------------------
\* the notifier delivered the status message m in some iteration up to k
DeliveredBy(m, k) ==
    \E i \in DOMAIN sent :
        /\ sent[i].kind = "status"
        /\ sent[i].msg = m
        /\ sent[i].ok
        /\ sent[i].cycle <= k

\* C15: latest_hw_status is None or a status message the notifier delivered.
\* (The point between the assignment and the send of the same iteration is
\* left out: there the send is still to come.)
C15_LatestWasDelivered ==
    pc \in (LoopPositions \cup {"crashed"}) \ {"notify"}
        => \/ latest_hw_status = None
           \/ DeliveredBy(latest_hw_status.s, cycle)

-----------------------------------------------------------------------------
\* C16: a status message that keeps being fetched is delivered once sends
\* succeed. A finished iteration that formatted M and in which no send
\* failed has either delivered M or left latest_hw_status as it found it (C3),
\* and then every later such iteration does the same; so the claim holds
\* exactly when every such iteration ends with M delivered, in it or before.
C16_EventualDelivery ==
    \A k \in 1 .. cycle :
        (/\ CycleDone(k)
         /\ hist[k].produced # None
         /\ AllDelivered(SendsIn(k)))
            => DeliveredBy(hist[k].produced.s, k)

-----------------------------------------------------------------------------
\* iteration k failed in the fetch, the validation or the formatting
FailedBeforeSend(k) ==
    /\ hist[k].raised # NoError
    /\ hist[k].raised.type # "SendMessageError"

\* C17: an iteration that fails in fetch, validation or formatting leaves
\* latest_hw_status and timestamp as it found them; so when the iterations
\* before and after it both produce a message M that was delivered by then,
\* the one after it makes no notifier call.
C17_FailingCycleKeepsState ==
    \A k \in 1 .. cycle :
        FailedBeforeSend(k)
            => /\ LatestAfter(k) = hist[k].latest_at_start
               /\ timestamp = hist[k].timestamp_at_start
               /\ (/\ k >= 2
                   /\ k + 1 <= cycle
                   /\ hist[k - 1].produced # None
                   /\ hist[k - 1].produced = hist[k + 1].produced
                   /\ DeliveredBy(hist[k - 1].produced.s, k - 1))
                      => SendsIn(k + 1) = <<>>

\* M notified, then a failing iteration, then M again and nothing sent
C17_Witness ==
    /\ cycle = 3
    /\ pc = "fetch"
    /\ FailedBeforeSend(2)
    /\ hist[1].produced # None
    /\ hist[1].produced = hist[3].produced
    /\ DeliveredBy(hist[1].produced.s, 1)
    /\ Len(SendsIn(2)) = 1
    /\ SendsIn(3) = <<>>

-----------------------------------------------------------------------------
\* C18: an iteration calls the notifier at most twice and at most one of its
\* calls succeeds; it sends a failure message only if it delivered no status
\* message; and its second call, if any, is the failure message that follows
\* the failed send of its status message.
C18_SendsPerCycle ==
    \A k \in 1 .. cycle :
        LET s == SendsIn(k)
        IN /\ Len(s) <= 2
           /\ Cardinality({i \in DOMAIN s : s[i].ok}) <= 1
           /\ (\E i \in DOMAIN s : s[i].kind = "failure")
                  => ~(\E i \in DOMAIN s : s[i].kind = "status" /\ s[i].ok)
           /\ Len(s) = 2
                  => /\ s[1].kind = "status"
                     /\ ~s[1].ok
                     /\ s[2].kind = "failure"
                     /\ s[2].msg = FailureMessage(Exc("SendMessageError", SEND_MESSAGE_ERROR))

\* an iteration with two calls: the status send failed, the failure message
\* went through
C18_Witness ==
    /\ cycle >= 1
    /\ pc = "fetch"
    /\ Len(SendsIn(cycle)) = 2
    /\ ~SendsIn(cycle)[1].ok
    /\ SendsIn(cycle)[2].ok

====
